---- MODULE Spec2Model ----
(***************************************************************************)
(* The depot schema of eflips/model/depot.py as a state machine.           *)
(*                                                                         *)
(* The state is the content of the six tables the module declares (Depot,  *)
(* Plan, Area, Process, AssocPlanProcess, AssocAreaProcess) plus the       *)
(* outcome of the last write.  One action per write (INSERT, UPDATE,       *)
(* DELETE) on each table; a write evaluates every constraint the schema    *)
(* declares for that table and changes the table only when none is         *)
(* violated.  CHECK constraints are evaluated in SQL's three-valued logic: *)
(* a CHECK rejects a row only when its expression is FALSE, never when it  *)
(* is UNKNOWN.                                                             *)
(*                                                                         *)
(* Columns no constraint of the schema reads beyond NOT NULL (name,        *)
(* name_short, dispatchable, availability) are left out of the rows.       *)
(***************************************************************************)
EXTENDS Integers, FiniteSets, Sequences, Bags

VARIABLES Depot, Plan, Area, Process, AssocPlanProcess, AssocAreaProcess, last

tables == <<Depot, Plan, Area, Process, AssocPlanProcess, AssocAreaProcess>>
vars == <<Depot, Plan, Area, Process, AssocPlanProcess, AssocAreaProcess, last>>

(***************************************************************************)
(* Bounds of the model.                                                    *)
(***************************************************************************)
\* At most MaxRows rows in the six tables together.
MaxRows == 5
\* Durations and powers a writer supplies lie in -MaxFloat..MaxFloat.
MaxFloat == 2

\* The ids a writer supplies for a row or a reference.
Ids == {1, 2}

(***************************************************************************)
(* SQL values: a column holds NULL or one value.                           *)
(***************************************************************************)
NULL == <<>>
Some(v) == <<v>>
Val(x) == x[1]

(***************************************************************************)
(* SQL's three-valued logic.                                               *)
(***************************************************************************)
And3(a, b) ==
    IF a = "F" \/ b = "F" THEN "F"
    ELSE IF a = "T" /\ b = "T" THEN "T"
    ELSE "U"

Or3(a, b) ==
    IF a = "T" \/ b = "T" THEN "T"
    ELSE IF a = "F" /\ b = "F" THEN "F"
    ELSE "U"

Bool3(b) == IF b THEN "T" ELSE "F"

Eq3(x, y) == IF x = NULL \/ y = NULL THEN "U" ELSE Bool3(Val(x) = Val(y))

Gt3(x, y) == IF x = NULL \/ y = NULL THEN "U" ELSE Bool3(Val(x) > Val(y))

Ge3(x, y) == IF x = NULL \/ y = NULL THEN "U" ELSE Bool3(Val(x) >= Val(y))

IsNull3(x) == Bool3(x = NULL)

IsNotNull3(x) == Bool3(x # NULL)

Abs(n) == IF n < 0 THEN -n ELSE n

\* SQL's %: the remainder of the truncated division (sign of the dividend);
\* NULL when an operand is NULL.  A zero divisor yields NULL where the engine
\* does not raise (see DivisionByZeroOutcomes).
Mod3(x, y) ==
    IF x = NULL \/ y = NULL THEN NULL
    ELSE IF Val(y) = 0 THEN NULL
    ELSE IF Val(x) < 0 THEN Some(-(Abs(Val(x)) % Abs(Val(y))))
    ELSE Some(Val(x) % Abs(Val(y)))

\* A CHECK constraint is violated only when its expression is FALSE.
CheckViolated(v) == v = "F"

Viol(name, violated) == IF violated THEN {name} ELSE {}

(***************************************************************************)
(* Tables of the repository that depot.py references but does not declare. *)
(***************************************************************************)
Scenario == {[id |-> 1], [id |-> 2]}

VehicleType == {[id |-> 1]}

(***************************************************************************)
(* Column constraints.                                                     *)
(***************************************************************************)
\* Every column nullable.
NeverNullViolated(v) == FALSE

\* Mapped[int] without Optional: NOT NULL.
NotNullViolated(v) == v = NULL

\* Foreign keys not enforced on writes.
ForeignKeyNotEnforced(v, table) == FALSE

\* ForeignKey("T.id"): a non-NULL value must be the id of a row of T.
ForeignKeyViolated(v, table) == v # NULL /\ ~ \E t \in table : t.id = Val(v)

\* primary_key=True on id: no second row with the same id.
PrimaryKeyViolated(id, table) == \E t \in table : t.id = id

\* Deletes never look for referencing rows.
NeverReferenced(id, rows, col) == FALSE

\* A foreign key declared without ondelete (NO ACTION): a row that is still
\* referenced through column `col` of `rows` cannot be deleted.
StillReferenced(id, rows, col) == \E r \in rows : r[col] = Some(id)

AreaType == {"DIRECT_ONESIDE", "DIRECT_TWOSIDE", "LINE"}

\* SqlEnum(AreaType): a non-NULL value must be one of the labels.
EnumViolated(v) == v # NULL /\ Val(v) \notin AreaType

TotalRows ==
    Cardinality(Depot) + Cardinality(Plan) + Cardinality(Area)
    + Cardinality(Process) + BagCardinality(AssocPlanProcess)
    + BagCardinality(AssocAreaProcess)

Result(op, row, violated) == [op |-> op, row |-> row, violated |-> violated]

Accepted == last.violated = {}

(***************************************************************************)
(* Plan                                                                    *)
(***************************************************************************)
PlanRowViolations(r) ==
    Viol("Plan.scenario_id NOT NULL", NotNullViolated(r.scenario_id))
    \cup Viol("Plan.scenario_id FK", ForeignKeyViolated(r.scenario_id, Scenario))

InsertPlan(r) ==
    /\ LET v == Viol("Plan PK", PrimaryKeyViolated(r.id, Plan))
                \cup PlanRowViolations(r)
       IN /\ v = {} => TotalRows < MaxRows
          /\ Plan' = IF v = {} THEN Plan \cup {r} ELSE Plan
          /\ last' = Result("InsertPlan", r, v)
    /\ UNCHANGED <<Depot, Area, Process, AssocPlanProcess, AssocAreaProcess>>

DeletePlan(id) ==
    /\ \E p \in Plan : p.id = id
    /\ LET v == Viol("Depot.default_plan_id FK",
                     StillReferenced(id, Depot, "default_plan_id"))
                \cup Viol("AssocPlanProcess.plan_id FK",
                          StillReferenced(id, BagToSet(AssocPlanProcess), "plan_id"))
       IN /\ Plan' = IF v = {} THEN {p \in Plan : p.id # id} ELSE Plan
          /\ last' = Result("DeletePlan", [id |-> id], v)
    /\ UNCHANGED <<Depot, Area, Process, AssocPlanProcess, AssocAreaProcess>>

(***************************************************************************)
(* Depot                                                                   *)
(***************************************************************************)
DepotRowViolations(r) ==
    Viol("Depot.scenario_id NOT NULL", NotNullViolated(r.scenario_id))
    \cup Viol("Depot.scenario_id FK", ForeignKeyViolated(r.scenario_id, Scenario))
    \cup Viol("Depot.default_plan_id NOT NULL", NotNullViolated(r.default_plan_id))
    \cup Viol("Depot.default_plan_id FK", ForeignKeyViolated(r.default_plan_id, Plan))

InsertDepot(r) ==
    /\ LET v == Viol("Depot PK", PrimaryKeyViolated(r.id, Depot))
                \cup DepotRowViolations(r)
       IN /\ v = {} => TotalRows < MaxRows
          /\ Depot' = IF v = {} THEN Depot \cup {r} ELSE Depot
          /\ last' = Result("InsertDepot", r, v)
    /\ UNCHANGED <<Plan, Area, Process, AssocPlanProcess, AssocAreaProcess>>

DeleteDepot(id) ==
    /\ \E d \in Depot : d.id = id
    /\ LET v == Viol("Area.depot_id FK", StillReferenced(id, Area, "depot_id"))
       IN /\ Depot' = IF v = {} THEN {d \in Depot : d.id # id} ELSE Depot
          /\ last' = Result("DeleteDepot", [id |-> id], v)
    /\ UNCHANGED <<Plan, Area, Process, AssocPlanProcess, AssocAreaProcess>>

(***************************************************************************)
(* Area                                                                    *)
(***************************************************************************)
\* row_count_check
row_count_constraint(r) ==
    Or3(Or3(And3(Eq3(r.type, Some("LINE")), Gt3(r.row_count, Some(0))),
            And3(Eq3(r.type, Some("DIRECT_TWOSIDE")), IsNull3(r.row_count))),
        And3(Eq3(r.type, Some("DIRECT_ONESIDE")), IsNull3(r.row_count)))

\* capacity_validity_check
capacity_constraint(r) ==
    And3(Gt3(r.capacity, Some(0)),
         Or3(Or3(And3(Eq3(r.type, Some("DIRECT_TWOSIDE")),
                      Eq3(Mod3(r.capacity, Some(2)), Some(0))),
                 Eq3(r.type, Some("DIRECT_ONESIDE"))),
             And3(Eq3(r.type, Some("LINE")),
                  Eq3(Mod3(r.capacity, r.row_count), Some(0)))))

\* capacity % row_count with row_count = 0: the engine raises a division by
\* zero when it evaluates the operator, and does not when it skips the operand
\* of an AND that is already decided or defines x % 0 as NULL.  Both outcomes
\* are possible.
DivisionByZeroOutcomes(r) ==
    IF r.capacity # NULL /\ r.row_count = Some(0) THEN {TRUE, FALSE} ELSE {FALSE}

AreaRowViolations(r) ==
    Viol("Area.scenario_id NOT NULL", NotNullViolated(r.scenario_id))
    \cup Viol("Area.scenario_id FK", ForeignKeyViolated(r.scenario_id, Scenario))
    \cup Viol("Area.depot_id NOT NULL", NotNullViolated(r.depot_id))
    \cup Viol("Area.depot_id FK", ForeignKeyViolated(r.depot_id, Depot))
    \cup Viol("Area.vehicle_type_id NOT NULL", NotNullViolated(r.vehicle_type_id))
    \cup Viol("Area.vehicle_type_id FK",
              ForeignKeyViolated(r.vehicle_type_id, VehicleType))
    \cup Viol("Area.type enum", EnumViolated(r.type))
    \cup Viol("Area.capacity NOT NULL", NotNullViolated(r.capacity))
    \cup Viol("row_count_check", CheckViolated(row_count_constraint(r)))
    \cup Viol("capacity_validity_check", CheckViolated(capacity_constraint(r)))

InsertArea(r) ==
    /\ \E dz \in DivisionByZeroOutcomes(r) :
         LET v == Viol("Area PK", PrimaryKeyViolated(r.id, Area))
                  \cup AreaRowViolations(r)
                  \cup Viol("division_by_zero", dz)
         IN /\ v = {} => TotalRows < MaxRows
            /\ Area' = IF v = {} THEN Area \cup {r} ELSE Area
            /\ last' = Result("InsertArea", r, v)
    /\ UNCHANGED <<Depot, Plan, Process, AssocPlanProcess, AssocAreaProcess>>

UpdateArea(r) ==
    /\ \E a \in Area : a.id = r.id
    /\ \E dz \in DivisionByZeroOutcomes(r) :
         LET v == AreaRowViolations(r) \cup Viol("division_by_zero", dz)
         IN /\ Area' = IF v = {} THEN {a \in Area : a.id # r.id} \cup {r} ELSE Area
            /\ last' = Result("UpdateArea", r, v)
    /\ UNCHANGED <<Depot, Plan, Process, AssocPlanProcess, AssocAreaProcess>>

DeleteArea(id) ==
    /\ \E a \in Area : a.id = id
    /\ LET v == Viol("AssocAreaProcess.area_id FK",
                     StillReferenced(id, BagToSet(AssocAreaProcess), "area_id"))
       IN /\ Area' = IF v = {} THEN {a \in Area : a.id # id} ELSE Area
          /\ last' = Result("DeleteArea", [id |-> id], v)
    /\ UNCHANGED <<Depot, Plan, Process, AssocPlanProcess, AssocAreaProcess>>

(***************************************************************************)
(* Process                                                                 *)
(***************************************************************************)
\* The check with its two halves joined by AND instead of OR.
two_independent_checks(r) ==
    And3(Or3(IsNull3(r.duration),
             And3(IsNotNull3(r.duration), Ge3(r.duration, Some(0)))),
         Or3(IsNull3(r.electric_power),
             And3(IsNotNull3(r.electric_power), Ge3(r.electric_power, Some(0)))))

\* positive_duration_and_power_check
positive_duration_and_power_check(r) ==
    Or3(Or3(Or3(IsNull3(r.duration),
                And3(IsNotNull3(r.duration), Ge3(r.duration, Some(0)))),
            IsNull3(r.electric_power)),
        And3(IsNotNull3(r.electric_power), Ge3(r.electric_power, Some(0))))

ProcessRowViolations(r) ==
    Viol("Process.scenario_id NOT NULL", NotNullViolated(r.scenario_id))
    \cup Viol("Process.scenario_id FK", ForeignKeyViolated(r.scenario_id, Scenario))
    \cup Viol("positive_duration_and_power_check",
              CheckViolated(positive_duration_and_power_check(r)))

InsertProcess(r) ==
    /\ LET v == Viol("Process PK", PrimaryKeyViolated(r.id, Process))
                \cup ProcessRowViolations(r)
       IN /\ v = {} => TotalRows < MaxRows
          /\ Process' = IF v = {} THEN Process \cup {r} ELSE Process
          /\ last' = Result("InsertProcess", r, v)
    /\ UNCHANGED <<Depot, Plan, Area, AssocPlanProcess, AssocAreaProcess>>

UpdateProcess(r) ==
    /\ \E p \in Process : p.id = r.id
    /\ LET v == ProcessRowViolations(r)
       IN /\ Process' = IF v = {} THEN {p \in Process : p.id # r.id} \cup {r}
                        ELSE Process
          /\ last' = Result("UpdateProcess", r, v)
    /\ UNCHANGED <<Depot, Plan, Area, AssocPlanProcess, AssocAreaProcess>>

DeleteProcess(id) ==
    /\ \E p \in Process : p.id = id
    /\ LET v == Viol("AssocPlanProcess.process_id FK",
                     StillReferenced(id, BagToSet(AssocPlanProcess), "process_id"))
                \cup Viol("AssocAreaProcess.process_id FK",
                          StillReferenced(id, BagToSet(AssocAreaProcess), "process_id"))
       IN /\ Process' = IF v = {} THEN {p \in Process : p.id # id} ELSE Process
          /\ last' = Result("DeleteProcess", [id |-> id], v)
    /\ UNCHANGED <<Depot, Plan, Area, AssocPlanProcess, AssocAreaProcess>>

(***************************************************************************)
(* AssocPlanProcess, AssocAreaProcess                                      *)
(***************************************************************************)
\* The association table without its primary key.
NoCompositeKey(r, rows) == FALSE

\* The composite primary key: no second row with the same pair.
CompositeKeyViolated(r, rows) == BagIn(r, rows)

\* DELETE ... WHERE both key columns match: every row holding the pair goes.
WithoutRow(rows, r) == [x \in DOMAIN rows \ {r} |-> rows[x]]

InsertAssocPlanProcess(r) ==
    /\ LET v == Viol("AssocPlanProcess PK", CompositeKeyViolated(r, AssocPlanProcess))
                \cup Viol("AssocPlanProcess.plan_id NOT NULL", NotNullViolated(r.plan_id))
                \cup Viol("AssocPlanProcess.plan_id FK",
                          ForeignKeyViolated(r.plan_id, Plan))
                \cup Viol("AssocPlanProcess.process_id NOT NULL",
                          NotNullViolated(r.process_id))
                \cup Viol("AssocPlanProcess.process_id FK",
                          ForeignKeyViolated(r.process_id, Process))
       IN /\ v = {} => TotalRows < MaxRows
          /\ AssocPlanProcess' = IF v = {} THEN AssocPlanProcess (+) SetToBag({r})
                                 ELSE AssocPlanProcess
          /\ last' = Result("InsertAssocPlanProcess", r, v)
    /\ UNCHANGED <<Depot, Plan, Area, Process, AssocAreaProcess>>

DeleteAssocPlanProcess(r) ==
    /\ BagIn(r, AssocPlanProcess)
    /\ AssocPlanProcess' = WithoutRow(AssocPlanProcess, r)
    /\ last' = Result("DeleteAssocPlanProcess", r, {})
    /\ UNCHANGED <<Depot, Plan, Area, Process, AssocAreaProcess>>

InsertAssocAreaProcess(r) ==
    /\ LET v == Viol("AssocAreaProcess PK", CompositeKeyViolated(r, AssocAreaProcess))
                \cup Viol("AssocAreaProcess.area_id NOT NULL", NotNullViolated(r.area_id))
                \cup Viol("AssocAreaProcess.area_id FK",
                          ForeignKeyViolated(r.area_id, Area))
                \cup Viol("AssocAreaProcess.process_id NOT NULL",
                          NotNullViolated(r.process_id))
                \cup Viol("AssocAreaProcess.process_id FK",
                          ForeignKeyViolated(r.process_id, Process))
       IN /\ v = {} => TotalRows < MaxRows
          /\ AssocAreaProcess' = IF v = {} THEN AssocAreaProcess (+) SetToBag({r})
                                 ELSE AssocAreaProcess
          /\ last' = Result("InsertAssocAreaProcess", r, v)
    /\ UNCHANGED <<Depot, Plan, Area, Process, AssocPlanProcess>>

DeleteAssocAreaProcess(r) ==
    /\ BagIn(r, AssocAreaProcess)
    /\ AssocAreaProcess' = WithoutRow(AssocAreaProcess, r)
    /\ last' = Result("DeleteAssocAreaProcess", r, {})
    /\ UNCHANGED <<Depot, Plan, Area, Process, AssocPlanProcess>>

(***************************************************************************)
(* The empty schema, right after the tables are created.                   *)
(***************************************************************************)
Init ==
    /\ Depot = {}
    /\ Plan = {}
    /\ Area = {}
    /\ Process = {}
    /\ AssocPlanProcess = EmptyBag
    /\ AssocAreaProcess = EmptyBag
    /\ last = Result("none", NULL, {})

(***************************************************************************)
(* Values a writer may supply.                                             *)
(***************************************************************************)
\* A reference names an id; the row it names may or may not exist yet.
RefInputs == {Some(i) : i \in Ids}

ScenarioRefs == {Some(s.id) : s \in Scenario}

TypeInputs == {NULL, Some("BOGUS")} \cup {Some(t) : t \in AreaType}

RowCountInputs == {NULL} \cup {Some(n) : n \in {-1, 0, 3}}

CapacityInputs == {NULL} \cup {Some(c) : c \in {0, 5, 6, 9, 10}}

FloatInputs == {NULL} \cup {Some(x) : x \in -MaxFloat..MaxFloat}

\* Scenario ids, NULL, and an id no Scenario row has.
PlanInputs == [id : Ids, scenario_id : ScenarioRefs \cup {NULL, Some(0)}]

DepotInputs == [id : Ids, scenario_id : ScenarioRefs, default_plan_id : RefInputs \cup {NULL}]

\* An area that satisfies both checks, for the writes that are about references.
PlainAreaInputs ==
    [id : Ids, scenario_id : {Some(1)}, depot_id : RefInputs,
     vehicle_type_id : {Some(1), Some(2)}, type : {Some("DIRECT_ONESIDE")},
     row_count : {NULL}, capacity : {Some(1)}]

PlainProcessInputs ==
    [id : Ids, scenario_id : {Some(1)}, duration : {NULL}, electric_power : {NULL}]

AssocPlanProcessInputs == [plan_id : RefInputs, process_id : RefInputs]

AssocAreaProcessInputs == [area_id : RefInputs, process_id : RefInputs]

(***************************************************************************)
(* Spec: the writes on all six tables, with the references drawn freely.   *)
(***************************************************************************)
Next ==
    \/ \E r \in PlanInputs : InsertPlan(r)
    \/ \E id \in Ids : DeletePlan(id)
    \/ \E r \in DepotInputs : InsertDepot(r)
    \/ \E id \in Ids : DeleteDepot(id)
    \/ \E r \in PlainAreaInputs : InsertArea(r)
    \/ \E id \in Ids : DeleteArea(id)
    \/ \E r \in PlainProcessInputs : InsertProcess(r)
    \/ \E id \in Ids : DeleteProcess(id)
    \/ \E r \in AssocPlanProcessInputs : InsertAssocPlanProcess(r)
    \/ \E r \in AssocPlanProcessInputs : DeleteAssocPlanProcess(r)
    \/ \E r \in AssocAreaProcessInputs : InsertAssocAreaProcess(r)
    \/ \E r \in AssocAreaProcessInputs : DeleteAssocAreaProcess(r)

Spec == Init /\ [][Next]_vars

(***************************************************************************)
(* SpecArea: the writes on one Area row, its type, row_count and capacity  *)
(* drawn freely, in a depot that is created first.                         *)
(***************************************************************************)
AreaInputs ==
    [id : {1}, scenario_id : {Some(1)}, depot_id : {Some(1)},
     vehicle_type_id : {Some(1)}, type : TypeInputs,
     row_count : RowCountInputs, capacity : CapacityInputs]

NextArea ==
    \/ InsertPlan([id |-> 1, scenario_id |-> Some(1)])
    \/ InsertDepot([id |-> 1, scenario_id |-> Some(1), default_plan_id |-> Some(1)])
    \/ \E r \in AreaInputs : InsertArea(r)
    \/ \E r \in AreaInputs : UpdateArea(r)
    \/ DeleteArea(1)

SpecArea == Init /\ [][NextArea]_vars

(***************************************************************************)
(* SpecProcess: the writes on one Process row, its duration and            *)
(* electric_power drawn freely.                                            *)
(***************************************************************************)
ProcessInputs ==
    [id : {1}, scenario_id : {Some(1), Some(0)},
     duration : FloatInputs, electric_power : FloatInputs]

NextProcess ==
    \/ \E r \in ProcessInputs : InsertProcess(r)
    \/ \E r \in ProcessInputs : UpdateProcess(r)
    \/ DeleteProcess(1)

SpecProcess == Init /\ [][NextProcess]_vars

(***************************************************************************)
(* Vocabulary of the claims.                                               *)
(***************************************************************************)
AreaWrite == last.op \in {"InsertArea", "UpdateArea"}

ProcessWrite == last.op \in {"InsertProcess", "UpdateProcess"}

RejectedBy(name) == name \in last.violated

\* The last write violates no constraint outside `names`.
NothingBut(names) == last.violated \subseteq names

Present(x) == x # NULL

Positive(x) == x # NULL /\ Val(x) > 0

Negative(x) == x # NULL /\ Val(x) < 0

Divides(x, y) == \E k \in 0..Val(y) : k * Val(x) = Val(y)

Direct == {Some("DIRECT_ONESIDE"), Some("DIRECT_TWOSIDE")}

Exists(ref, table) == ref # NULL /\ \E t \in table : t.id = Val(ref)

RowOf(ref, table) == CHOOSE t \in table : t.id = Val(ref)

(***************************************************************************)
(* C1.  After any sequence of accepted Area inserts and updates, every     *)
(* Area row has type = LINE if and only if row_count is a positive         *)
(* integer, and row_count is NULL for DIRECT_ONESIDE and DIRECT_TWOSIDE;   *)
(* a write of a LINE area with row_count absent or <= 0, or of a DIRECT_*  *)
(* area with row_count present, is rejected by row_count_check.            *)
(* Stated here for the rows that have a type (C6 is about the others).     *)
(* Refuted: a LINE area with row_count NULL is accepted.                   *)
(***************************************************************************)
C1_RowCountIffLine ==
    /\ \A a \in Area :
         /\ a.type # NULL => ((a.type = Some("LINE")) <=> Positive(a.row_count))
         /\ a.type \in Direct => a.row_count = NULL
    /\ ( /\ AreaWrite
         /\ NothingBut({"row_count_check", "division_by_zero"})
         /\ \/ last.row.type = Some("LINE") /\ ~ Positive(last.row.row_count)
            \/ last.row.type \in Direct /\ Present(last.row.row_count) )
       => RejectedBy("row_count_check")

(***************************************************************************)
(* C2.  After any sequence of accepted Area inserts and updates, every     *)
(* Area row has capacity > 0, a DIRECT_TWOSIDE row has even capacity and a *)
(* LINE row has capacity divisible by its row_count; a write violating     *)
(* one of these is rejected by capacity_validity_check, while LINE/3/9 and *)
(* DIRECT_TWOSIDE/6 are accepted.                                          *)
(* Refuted: a LINE row without row_count is accepted with any capacity.    *)
(***************************************************************************)
C2_CapacityRules ==
    /\ \A a \in Area :
         /\ Positive(a.capacity)
         /\ a.type = Some("DIRECT_TWOSIDE") => Divides(Some(2), a.capacity)
         /\ a.type = Some("LINE") =>
              Positive(a.row_count) /\ Divides(a.row_count, a.capacity)
    /\ ( /\ AreaWrite
         /\ NothingBut({"capacity_validity_check"})
         /\ \/ ~ Positive(last.row.capacity)
            \/ /\ last.row.type = Some("DIRECT_TWOSIDE")
               /\ ~ Divides(Some(2), last.row.capacity)
            \/ /\ last.row.type = Some("LINE")
               /\ Positive(last.row.row_count)
               /\ ~ Divides(last.row.row_count, last.row.capacity) )
       => RejectedBy("capacity_validity_check")
    /\ ( /\ AreaWrite
         /\ NothingBut({"capacity_validity_check"})
         /\ \/ /\ last.row.type = Some("LINE")
               /\ last.row.row_count = Some(3)
               /\ last.row.capacity = Some(9)
            \/ /\ last.row.type = Some("DIRECT_TWOSIDE")
               /\ last.row.row_count = NULL
               /\ last.row.capacity = Some(6) )
       => Accepted

(***************************************************************************)
(* C6.  In every reachable state the type of every Area row is one of      *)
(* DIRECT_ONESIDE, DIRECT_TWOSIDE, LINE; a write of an Area whose type is  *)
(* NULL or outside that set is rejected.                                   *)
(* Refuted: an Area with type NULL is accepted.                            *)
(***************************************************************************)
C6_TypeIsOneOfThree ==
    /\ \A a \in Area : a.type # NULL /\ Val(a.type) \in AreaType
    /\ (AreaWrite /\ (last.row.type = NULL \/ Val(last.row.type) \notin AreaType))
       => ~ Accepted

(***************************************************************************)
(* C3.  After any sequence of accepted Process inserts and updates, every  *)
(* Process row has duration NULL or >= 0 and, independently,               *)
(* electric_power NULL or >= 0; a write with duration = -1 is rejected     *)
(* whatever electric_power is, and duration = 0 with electric_power NULL   *)
(* is accepted.                                                            *)
(* Refuted: duration = -1 with electric_power NULL is accepted.            *)
(***************************************************************************)
C3_DurationAndPowerNonNegative ==
    /\ \A p \in Process : ~ Negative(p.duration) /\ ~ Negative(p.electric_power)
    /\ (ProcessWrite /\ last.row.duration = Some(-1)) => ~ Accepted
    /\ ( /\ ProcessWrite
         /\ last.row.duration = Some(0)
         /\ last.row.electric_power = NULL
         /\ NothingBut({"positive_duration_and_power_check"}) )
       => Accepted

(***************************************************************************)
(* C10.  positive_duration_and_power_check as declared is one disjunction  *)
(* of four clauses: it rejects a Process write exactly when duration and   *)
(* electric_power are both present and both negative, so a negative        *)
(* duration is accepted when electric_power is NULL and a negative         *)
(* electric_power when duration is NULL.                                   *)
(***************************************************************************)
C10_CheckIsOneDisjunction ==
    /\ ProcessWrite =>
         ( RejectedBy("positive_duration_and_power_check")
           <=> (Negative(last.row.duration) /\ Negative(last.row.electric_power)) )
    /\ ( /\ ProcessWrite
         /\ NothingBut({"positive_duration_and_power_check"})
         /\ \/ Negative(last.row.duration) /\ last.row.electric_power = NULL
            \/ Negative(last.row.electric_power) /\ last.row.duration = NULL )
       => Accepted /\ last.row \in Process

\* A Process with duration -1 and no electric_power has just been inserted.
C10_Witness ==
    /\ last.op = "InsertProcess"
    /\ Accepted
    /\ last.row.duration = Some(-1)
    /\ last.row.electric_power = NULL
    /\ last.row \in Process

(***************************************************************************)
(* C4.  Associating a Process with a Plan (or an Area) when the pair is    *)
(* already present fails with a duplicate-key error and leaves the         *)
(* association table unchanged; each pair occurs at most once in           *)
(* AssocPlanProcess and in AssocAreaProcess.                               *)
(***************************************************************************)
C4_DuplicatePairStep ==
    /\ (last'.op = "InsertAssocPlanProcess" /\ BagIn(last'.row, AssocPlanProcess))
       => /\ "AssocPlanProcess PK" \in last'.violated
          /\ AssocPlanProcess' = AssocPlanProcess
    /\ (last'.op = "InsertAssocAreaProcess" /\ BagIn(last'.row, AssocAreaProcess))
       => /\ "AssocAreaProcess PK" \in last'.violated
          /\ AssocAreaProcess' = AssocAreaProcess
    /\ \A r \in BagToSet(AssocPlanProcess') : CopiesIn(r, AssocPlanProcess') = 1
    /\ \A r \in BagToSet(AssocAreaProcess') : CopiesIn(r, AssocAreaProcess') = 1

C4_PairsAreUnique == [][C4_DuplicatePairStep]_vars

\* The second insert of an (area, process) pair has just been refused.
C4_Witness ==
    /\ last.op = "InsertAssocAreaProcess"
    /\ "AssocAreaProcess PK" \in last.violated
    /\ BagIn(last.row, AssocAreaProcess)

(***************************************************************************)
(* C5.  After any sequence of create, associate and delete operations,     *)
(* every AssocPlanProcess row references an existing Plan and an existing  *)
(* Process and every AssocAreaProcess row an existing Area and an existing *)
(* Process; an association insert naming a non-existent entity is          *)
(* rejected.                                                               *)
(***************************************************************************)
C5_AssociationsReferenceExistingRows ==
    /\ \A r \in BagToSet(AssocPlanProcess) :
         Exists(r.plan_id, Plan) /\ Exists(r.process_id, Process)
    /\ \A r \in BagToSet(AssocAreaProcess) :
         Exists(r.area_id, Area) /\ Exists(r.process_id, Process)
    /\ ( /\ last.op = "InsertAssocPlanProcess"
         /\ ~ (Exists(last.row.plan_id, Plan) /\ Exists(last.row.process_id, Process)) )
       => ~ Accepted /\ ~ BagIn(last.row, AssocPlanProcess)
    /\ ( /\ last.op = "InsertAssocAreaProcess"
         /\ ~ (Exists(last.row.area_id, Area) /\ Exists(last.row.process_id, Process)) )
       => ~ Accepted /\ ~ BagIn(last.row, AssocAreaProcess)

\* With an association in place, an insert naming a missing Area was refused.
C5_Witness ==
    /\ last.op = "InsertAssocAreaProcess"
    /\ "AssocAreaProcess.area_id FK" \in last.violated
    /\ Exists(last.row.process_id, Process)
    /\ AssocPlanProcess # EmptyBag

(***************************************************************************)
(* C7.  In every reachable state every Depot references exactly one        *)
(* existing Plan as its default plan (default_plan_id never NULL, never    *)
(* dangling), and no Plan is the default plan of more than one Depot:      *)
(* creating a second Depot with the default_plan_id of an existing Depot   *)
(* is rejected.                                                            *)
(* Refuted: two Depots with the same default plan are accepted.            *)
(***************************************************************************)
C7_OneDefaultPlanPerDepot ==
    /\ \A d \in Depot : Exists(d.default_plan_id, Plan)
    /\ \A d1, d2 \in Depot : d1.default_plan_id = d2.default_plan_id => d1 = d2
    /\ ( /\ last.op = "InsertDepot"
         /\ \E d \in Depot : /\ d.id # last.row.id
                             /\ d.default_plan_id = last.row.default_plan_id )
       => ~ Accepted

(***************************************************************************)
(* C8.  In every reachable state the default Plan of a Depot belongs to    *)
(* the Scenario of that Depot, and no row references a row of another      *)
(* scenario (Area and its Depot, association rows and their Plan, Area     *)
(* and Process).                                                           *)
(* Refuted: a Depot of one scenario takes a Plan of another as default.    *)
(***************************************************************************)
SameScenario(ref1, table1, ref2, table2) ==
    (Exists(ref1, table1) /\ Exists(ref2, table2))
    => RowOf(ref1, table1).scenario_id = RowOf(ref2, table2).scenario_id

C8_NoCrossScenarioReference ==
    /\ \A d \in Depot :
         SameScenario(Some(d.id), Depot, d.default_plan_id, Plan)
    /\ \A a \in Area :
         SameScenario(Some(a.id), Area, a.depot_id, Depot)
    /\ \A r \in BagToSet(AssocPlanProcess) :
         SameScenario(r.plan_id, Plan, r.process_id, Process)
    /\ \A r \in BagToSet(AssocAreaProcess) :
         SameScenario(r.area_id, Area, r.process_id, Process)

(***************************************************************************)
(* C8, amended.  In every reachable state every Depot, Plan, Area and      *)
(* Process row belongs to exactly one existing Scenario (its scenario_id   *)
(* is not NULL and names a Scenario row), and the default Plan of a Depot  *)
(* and the Depot of an Area exist; the schema does not require a           *)
(* referenced row to be of the same scenario as the row referencing it.    *)
(***************************************************************************)
C8_EveryRowInOneExistingScenario ==
    /\ \A t \in Depot \cup Plan \cup Area \cup Process :
         Exists(t.scenario_id, Scenario)
    /\ \A d \in Depot : Exists(d.default_plan_id, Plan)
    /\ \A a \in Area : Exists(a.depot_id, Depot)

\* A Depot has just been created whose default Plan is of another scenario.
C8_Witness ==
    /\ last.op = "InsertDepot"
    /\ Accepted
    /\ last.row \in Depot
    /\ RowOf(last.row.default_plan_id, Plan).scenario_id # last.row.scenario_id

(***************************************************************************)
(* C9.  A delete of a Depot that still owns Areas, of a Plan that is still *)
(* a Depot's default plan or still has AssocPlanProcess rows, of an Area   *)
(* that still has AssocAreaProcess rows, or of a Process that still has    *)
(* association rows is rejected and leaves every table unchanged; the      *)
(* delete succeeds only after the dependent rows are gone.                 *)
(***************************************************************************)
DependentsOf(op, id) ==
    IF op = "DeleteDepot" THEN {a \in Area : a.depot_id = Some(id)}
    ELSE IF op = "DeletePlan" THEN
        {d \in Depot : d.default_plan_id = Some(id)}
        \cup {r \in BagToSet(AssocPlanProcess) : r.plan_id = Some(id)}
    ELSE IF op = "DeleteArea" THEN
        {r \in BagToSet(AssocAreaProcess) : r.area_id = Some(id)}
    ELSE IF op = "DeleteProcess" THEN
        {r \in BagToSet(AssocPlanProcess) : r.process_id = Some(id)}
        \cup {r \in BagToSet(AssocAreaProcess) : r.process_id = Some(id)}
    ELSE {}

EntityDeletes == {"DeleteDepot", "DeletePlan", "DeleteArea", "DeleteProcess"}

C9_DeleteStep ==
    last'.op \in EntityDeletes =>
        /\ DependentsOf(last'.op, last'.row.id) # {}
           => /\ last'.violated # {}
              /\ UNCHANGED tables
        /\ ~ UNCHANGED tables => DependentsOf(last'.op, last'.row.id) = {}

====
